---- MODULE Spec2Model ----
(***************************************************************************)
(* A model of the mutf8 crate (src/src/lib.rs): the MUTF-8 <-> UTF-8       *)
(* transcoder built on the cesu8 crate.                                    *)
(*                                                                         *)
(* A text value (&str) is a sequence of Unicode scalar values; as_bytes    *)
(* gives its UTF-8 bytes.  A byte buffer (&[u8]) is a sequence of numbers  *)
(* in 0..255.  The two loops of the crate (decode_mutf8, encode_mutf8) are *)
(* modelled one iteration per step; the other functions are operators.     *)
(*                                                                         *)
(* The cesu8 crate and core::str::from_utf8 are not part of the            *)
(* repository's sources.  from_utf8 is modelled by the Unicode standard's  *)
(* table of well-formed UTF-8 byte sequences, the cesu8 operations by the  *)
(* contract the design document gives for them.  That contract leaves open *)
(* whether cesu8::decode accepts a buffer that is well-formed UTF-8 with   *)
(* 4-byte sequences: the variable "lenient" chooses either behaviour.      *)
(***************************************************************************)
EXTENDS Integers, Sequences, FiniteSets, TLC

VARIABLES
    s,          \* the text value given to encode / len / is_valid
    bytes,      \* the byte buffer given to decode
    op,         \* "none" | "encode" | "decode" | "roundtrip"
    pc,         \* "idle" | "scan" | "enc" | "done"
    pos,        \* decode_mutf8: number of input bytes the iterator has yielded
    decoded,    \* decode_mutf8: the intermediate buffer
    src,        \* encode_mutf8: cesu8::encode(s)
    epos,       \* encode_mutf8: number of bytes of src already copied
    encoded,    \* encode_mutf8: the output buffer
    cap,        \* capacity given to Vec::with_capacity by the running slow path
    result,     \* what encode / decode returned
    lenOut,     \* what len(s) returned, NoLen before the call
    validOut,   \* what is_valid(s) returned, "none" before the call
    lenient     \* cesu8::decode accepts well-formed UTF-8 as it is

vars == <<s, bytes, op, pc, pos, decoded, src, epos, encoded, cap, result,
          lenOut, validOut, lenient>>

---------------------------------------------------------------------------
(* Bounds of the model. *)

MaxChars == 3
MaxBytes == 4

\* U+0000, 'A', U+0080, U+0800, U+FFFF, U+10401, U+10FFFF
CodePoints == {0, 65, 128, 2048, 65535, 66561, 1114111}

\* 0x00 0x41 0x80 0x81 0x90 0xA0 0xB0 0xC0 0xC2 0xED 0xF0
ByteVals == {0, 65, 128, 129, 144, 160, 176, 192, 194, 237, 240}

Texts == UNION {[1..n -> CodePoints] : n \in 0..MaxChars}
Buffers == UNION {[1..n -> ByteVals] : n \in 0..MaxBytes}

---------------------------------------------------------------------------
(* Constants of the crate. *)

NULL_CODE_POINT == 0
NULL_CHAR == 0
\* [0xC0, 0x80]
NULL_PAIR == <<192, 128>>

---------------------------------------------------------------------------
(* Values returned. *)

NoResult == [kind |-> "None", cow |-> "None", bytes |-> <<>>]
\* mutf8::Error: a unit struct
Error == [kind |-> "Err", cow |-> "None", bytes |-> <<>>]
\* cesu8::Error
Cesu8Error == [kind |-> "Cesu8Err", cow |-> "None", bytes |-> <<>>]
Ok(c, b) == [kind |-> "Ok", cow |-> c, bytes |-> b]
\* Option<usize>: <<>> before the call of len, <<n>> after it
NoLen == <<>>

---------------------------------------------------------------------------
(* UTF-8: str::as_bytes and core::str::from_utf8. *)

InRange(x, lo, hi) == x >= lo /\ x <= hi

\* a continuation byte 10xxxxxx
IsCont(b) == InRange(b, 128, 191)

\* the three-byte form 1110xxxx 10xxxxxx 10xxxxxx of a 16-bit value
ThreeBytes(c) == <<224 + (c \div 4096), 128 + ((c \div 64) % 64), 128 + (c % 64)>>

\* the UTF-8 encoding of one scalar value
Utf8Char(c) ==
    IF c < 128 THEN <<c>>
    ELSE IF c < 2048 THEN <<192 + (c \div 64), 128 + (c % 64)>>
    ELSE IF c < 65536 THEN ThreeBytes(c)
    ELSE <<240 + (c \div 262144), 128 + ((c \div 4096) % 64),
           128 + ((c \div 64) % 64), 128 + (c % 64)>>

RECURSIVE as_bytes(_)
\* str::as_bytes: the UTF-8 bytes of a text value
as_bytes(t) ==
    IF t = <<>> THEN <<>> ELSE Utf8Char(Head(t)) \o as_bytes(Tail(t))

\* the second byte a three-byte sequence led by b1 may have, surrogates excluded
Second3(b1, b2) ==
    \/ b1 = 224 /\ InRange(b2, 160, 191)
    \/ InRange(b1, 225, 236) /\ IsCont(b2)
    \/ b1 = 237 /\ InRange(b2, 128, 159)
    \/ InRange(b1, 238, 239) /\ IsCont(b2)

\* the second byte a four-byte sequence led by b1 may have
Second4(b1, b2) ==
    \/ b1 = 240 /\ InRange(b2, 144, 191)
    \/ InRange(b1, 241, 243) /\ IsCont(b2)
    \/ b1 = 244 /\ InRange(b2, 128, 143)

\* the length of the well-formed UTF-8 sequence that starts at b[i], 0 if none does
Utf8SeqLen(b, i) ==
    LET b1 == b[i]
        has(k) == i + k <= Len(b)
    IN  IF b1 <= 127 THEN 1
        ELSE IF InRange(b1, 194, 223)
             THEN IF has(1) /\ IsCont(b[i + 1]) THEN 2 ELSE 0
        ELSE IF InRange(b1, 224, 239)
             THEN IF has(2) /\ Second3(b1, b[i + 1]) /\ IsCont(b[i + 2])
                  THEN 3 ELSE 0
        ELSE IF InRange(b1, 240, 244)
             THEN IF has(3) /\ Second4(b1, b[i + 1]) /\ IsCont(b[i + 2])
                     /\ IsCont(b[i + 3])
                  THEN 4 ELSE 0
        ELSE 0

RECURSIVE Utf8ValidFrom(_, _)
Utf8ValidFrom(b, i) ==
    IF i > Len(b) THEN TRUE
    ELSE LET n == Utf8SeqLen(b, i)
         IN  n > 0 /\ Utf8ValidFrom(b, i + n)

\* from_utf8(b).is_ok()
from_utf8_ok(b) == Utf8ValidFrom(b, 1)

---------------------------------------------------------------------------
(* The cesu8 crate: encode, len, is_valid, decode. *)

\* the CESU-8 encoding of one scalar value: a supplementary code point becomes
\* its surrogate pair, each half in the three-byte form
Cesu8Char(c) ==
    IF c < 65536 THEN Utf8Char(c)
    ELSE LET v == c - 65536
         IN  ThreeBytes(55296 + (v \div 1024)) \o ThreeBytes(56320 + (v % 1024))

RECURSIVE cesu8_encode(_)
cesu8_encode(t) ==
    IF t = <<>> THEN <<>> ELSE Cesu8Char(Head(t)) \o cesu8_encode(Tail(t))

RECURSIVE cesu8_len(_)
cesu8_len(t) ==
    IF t = <<>> THEN 0
    ELSE (IF Head(t) < 128 THEN 1
          ELSE IF Head(t) < 2048 THEN 2
          ELSE IF Head(t) < 65536 THEN 3
          ELSE 6) + cesu8_len(Tail(t))

\* no scalar value needs a surrogate pair
cesu8_is_valid(t) == \A i \in 1..Len(t) : t[i] <= 65535

\* b[i..i+5] is an encoded surrogate pair: ED A0..AF xx ED B0..BF xx
IsSurrogatePair(b, i) ==
    /\ i + 5 <= Len(b)
    /\ b[i] = 237 /\ InRange(b[i + 1], 160, 175) /\ IsCont(b[i + 2])
    /\ b[i + 3] = 237 /\ InRange(b[i + 4], 176, 191) /\ IsCont(b[i + 5])

\* the scalar value of the surrogate pair at b[i..i+5]
SurrogateScalar(b, i) ==
    LET hi == 55296 + (b[i + 1] - 160) * 64 + (b[i + 2] - 128)
        lo == 56320 + (b[i + 4] - 176) * 64 + (b[i + 5] - 128)
    IN  65536 + (hi - 55296) * 1024 + (lo - 56320)

RECURSIVE Cesu8DecodeFrom(_, _, _)
\* the strict CESU-8 decoding of b[i..], appended to out; Cesu8Error if malformed
Cesu8DecodeFrom(b, i, out) ==
    IF i > Len(b) THEN Ok("Owned", out)
    ELSE IF IsSurrogatePair(b, i)
         THEN Cesu8DecodeFrom(b, i + 6, out \o Utf8Char(SurrogateScalar(b, i)))
    ELSE LET n == Utf8SeqLen(b, i)
         IN  IF n \in 1..3
             THEN Cesu8DecodeFrom(b, i + n, out \o SubSeq(b, i, i + n - 1))
             ELSE Cesu8Error

\* cesu8::decode: Ok with the UTF-8 bytes of the text, or Cesu8Error
cesu8_decode(b, fast) ==
    IF fast /\ from_utf8_ok(b) THEN Ok("Borrowed", b)
    ELSE Cesu8DecodeFrom(b, 1, <<>>)

---------------------------------------------------------------------------
(* The crate's functions. *)

\* a slip in is_valid: the cesu8 check is left out
is_valid_NoCesu8(t) == ~ \E i \in 1..Len(t) : t[i] = NULL_CHAR

\* a slip in is_valid: the null check is left out
is_valid_NoNullCheck(t) == cesu8_is_valid(t)

\* is_valid: !s.contains(NULL_CHAR) && cesu8::is_valid(s)
is_valid(t) == (~ \E i \in 1..Len(t) : t[i] = NULL_CHAR) /\ cesu8_is_valid(t)

RECURSIVE CountNulls(_)
\* the number of bytes of b equal to NULL_CODE_POINT (the for_each of len)
CountNulls(b) ==
    IF b = <<>> THEN 0
    ELSE (IF Head(b) = NULL_CODE_POINT THEN 1 ELSE 0) + CountNulls(Tail(b))

\* a slip in len: the null bytes are not counted
len_NoNulls(t) == cesu8_len(t)

\* len: cesu8::len(s), plus one for every null byte of s.as_bytes()
len(t) == cesu8_len(t) + CountNulls(as_bytes(t))

\* a slip in encode_mutf8: the null byte is copied like any other
EncodeByte_NoEscape(byte) == <<byte>>

\* the body of encode_mutf8's loop: what one byte of cesu8::encode(s) appends
EncodeByte(byte) ==
    IF byte = NULL_CODE_POINT THEN NULL_PAIR ELSE <<byte>>

\* a slip in decode_mutf8: the escape pushes the inner, shadowing byte (0x80)
ScanByte_PushSecond(b, i) ==
    IF b[i] = NULL_PAIR[1]
    THEN IF i + 1 <= Len(b)
         THEN IF b[i + 1] # NULL_PAIR[2]
              THEN [err |-> TRUE, value |-> NULL_CODE_POINT, next |-> i + 1]
              ELSE [err |-> FALSE, value |-> b[i + 1], next |-> i + 1]
         ELSE [err |-> TRUE, value |-> NULL_CODE_POINT, next |-> i]
    ELSE [err |-> FALSE, value |-> b[i], next |-> i]

\* a slip in decode_mutf8: a 0xC0 at the end of the buffer is taken as a null
ScanByte_TruncatedAsNull(b, i) ==
    IF b[i] = NULL_PAIR[1]
    THEN IF i + 1 <= Len(b)
         THEN IF b[i + 1] # NULL_PAIR[2]
              THEN [err |-> TRUE, value |-> NULL_CODE_POINT, next |-> i + 1]
              ELSE [err |-> FALSE, value |-> NULL_CODE_POINT, next |-> i + 1]
         ELSE [err |-> FALSE, value |-> NULL_CODE_POINT, next |-> i]
    ELSE [err |-> FALSE, value |-> b[i], next |-> i]

\* a slip in decode_mutf8: the second byte of the escape is peeked, not consumed
ScanByte_EscapeOneByte(b, i) ==
    IF b[i] = NULL_PAIR[1]
    THEN IF i + 1 <= Len(b)
         THEN IF b[i + 1] # NULL_PAIR[2]
              THEN [err |-> TRUE, value |-> NULL_CODE_POINT, next |-> i + 1]
              ELSE [err |-> FALSE, value |-> NULL_CODE_POINT, next |-> i]
         ELSE [err |-> TRUE, value |-> NULL_CODE_POINT, next |-> i]
    ELSE [err |-> FALSE, value |-> b[i], next |-> i]

\* the body of decode_mutf8's loop at input byte b[i]: the value pushed, the
\* position of the iterator afterwards, and whether err!() was taken
ScanByte(b, i) ==
    IF b[i] = NULL_PAIR[1]
    THEN IF i + 1 <= Len(b)
         THEN IF b[i + 1] # NULL_PAIR[2]
              THEN [err |-> TRUE, value |-> NULL_CODE_POINT, next |-> i + 1]
              ELSE [err |-> FALSE, value |-> NULL_CODE_POINT, next |-> i + 1]
         ELSE [err |-> TRUE, value |-> NULL_CODE_POINT, next |-> i]
    ELSE [err |-> FALSE, value |-> b[i], next |-> i]

\* a slip in the conversion: the error of cesu8 is passed on as it is
FromCesu8Error_Keep(e) == e

\* impl From<cesu8::Error> for Error
FromCesu8Error(e) == Error

\* decode_mutf8's last expression: cesu8::decode(&decoded).map(Cow::into_owned)
\* .map_err(From::from)
DecodeIntermediate(d, fast) ==
    LET r == cesu8_decode(d, fast)
    IN  IF r.kind = "Ok" THEN Ok("Owned", r.bytes) ELSE FromCesu8Error(r)

\* a slip in decode: the fast path is never taken
DecodeFast_Never(b) == FALSE

\* decode's fast path is taken
DecodeFast(b) == from_utf8_ok(b)

---------------------------------------------------------------------------
(* The state machine. *)

Init ==
    /\ s = <<>>
    /\ bytes = <<>>
    /\ op = "none"
    /\ pc = "idle"
    /\ pos = 0
    /\ decoded = <<>>
    /\ src = <<>>
    /\ epos = 0
    /\ encoded = <<>>
    /\ cap = 0
    /\ result = NoResult
    /\ lenOut = NoLen
    /\ validOut = "none"
    /\ lenient \in BOOLEAN

\* encode(t): the fast path returns s.as_bytes() borrowed, the slow path enters
\* encode_mutf8 with a buffer of capacity len(s)
encode(t) ==
    /\ pc = "idle"
    /\ s' = t
    /\ op' = "encode"
    /\ IF is_valid(t)
       THEN /\ result' = Ok("Borrowed", as_bytes(t))
            /\ pc' = "done"
            /\ UNCHANGED <<src, cap>>
       ELSE /\ src' = cesu8_encode(t)
            /\ cap' = len(t)
            /\ pc' = "enc"
            /\ UNCHANGED result
    /\ encoded' = <<>>
    /\ epos' = 0
    /\ UNCHANGED <<bytes, pos, decoded, lenOut, validOut, lenient>>

\* one iteration of encode_mutf8's loop
encode_mutf8_step ==
    /\ pc = "enc"
    /\ epos < Len(src)
    /\ encoded' = encoded \o EncodeByte(src[epos + 1])
    /\ epos' = epos + 1
    /\ UNCHANGED <<s, bytes, op, pc, pos, decoded, src, cap, result, lenOut,
                   validOut, lenient>>

\* encode_mutf8 returns the buffer, encode wraps it in Cow::Owned
encode_mutf8_return ==
    /\ pc = "enc"
    /\ epos = Len(src)
    /\ result' = Ok("Owned", encoded)
    /\ pc' = "done"
    /\ UNCHANGED <<s, bytes, op, pos, decoded, src, epos, encoded, cap, lenOut,
                   validOut, lenient>>

\* decode(b) is entered: the fast path returns the buffer borrowed as a str, the
\* slow path enters decode_mutf8 with a buffer of capacity bytes.len()
DecodeEnter(b) ==
    /\ bytes' = b
    /\ pos' = 0
    /\ decoded' = <<>>
    /\ IF DecodeFast(b)
       THEN /\ result' = Ok("Borrowed", b)
            /\ pc' = "done"
            /\ UNCHANGED cap
       ELSE /\ result' = NoResult
            /\ cap' = Len(b)
            /\ pc' = "scan"
    /\ UNCHANGED <<s, src, epos, encoded, lenOut, validOut, lenient>>

\* decode on an arbitrary buffer
decode(b) ==
    /\ pc = "idle"
    /\ op' = "decode"
    /\ DecodeEnter(b)

\* decode on the buffer encode returned
decode_encoded ==
    /\ pc = "done"
    /\ op = "encode"
    /\ op' = "roundtrip"
    /\ DecodeEnter(result.bytes)

\* one iteration of decode_mutf8's loop that pushes a value
decode_mutf8_push ==
    /\ pc = "scan"
    /\ pos < Len(bytes)
    /\ LET r == ScanByte(bytes, pos + 1)
       IN  /\ ~ r.err
           /\ decoded' = Append(decoded, r.value)
           /\ pos' = r.next
    /\ UNCHANGED <<s, bytes, op, pc, src, epos, encoded, cap, result, lenOut,
                   validOut, lenient>>

\* an iteration of decode_mutf8's loop that takes err!()
decode_mutf8_err ==
    /\ pc = "scan"
    /\ pos < Len(bytes)
    /\ LET r == ScanByte(bytes, pos + 1)
       IN  /\ r.err
           /\ pos' = r.next
    /\ result' = Error
    /\ pc' = "done"
    /\ UNCHANGED <<s, bytes, op, decoded, src, epos, encoded, cap, lenOut,
                   validOut, lenient>>

\* the loop of decode_mutf8 is over: the intermediate buffer goes to cesu8::decode
decode_mutf8_finish ==
    /\ pc = "scan"
    /\ pos = Len(bytes)
    /\ result' = DecodeIntermediate(decoded, lenient)
    /\ pc' = "done"
    /\ UNCHANGED <<s, bytes, op, pos, decoded, src, epos, encoded, cap, lenOut,
                   validOut, lenient>>

\* len(s) on the text encode was given
len_call ==
    /\ pc = "done"
    /\ op = "encode"
    /\ lenOut = NoLen
    /\ lenOut' = <<len(s)>>
    /\ UNCHANGED <<s, bytes, op, pc, pos, decoded, src, epos, encoded, cap,
                   result, validOut, lenient>>

\* is_valid(s) on the text encode was given
is_valid_call ==
    /\ pc = "done"
    /\ op = "encode"
    /\ validOut = "none"
    /\ validOut' = IF is_valid(s) THEN "true" ELSE "false"
    /\ UNCHANGED <<s, bytes, op, pc, pos, decoded, src, epos, encoded, cap,
                   result, lenOut, lenient>>

Next ==
    \/ pc = "idle" /\ \E t \in Texts : encode(t)
    \/ encode_mutf8_step
    \/ encode_mutf8_return
    \/ pc = "idle" /\ \E b \in Buffers : decode(b)
    \/ decode_encoded
    \/ decode_mutf8_push
    \/ decode_mutf8_err
    \/ decode_mutf8_finish
    \/ len_call
    \/ is_valid_call

Spec == Init /\ [][Next]_vars

---------------------------------------------------------------------------
(* Reference definitions the properties are stated with. *)

EncodeDone == op = "encode" /\ pc = "done"
DecodeDone == op \in {"decode", "roundtrip"} /\ pc = "done"

\* the scalar value of the well-formed UTF-8 sequence of n bytes at b[i]
Utf8Scalar(b, i, n) ==
    IF n = 1 THEN b[i]
    ELSE IF n = 2 THEN (b[i] - 192) * 64 + (b[i + 1] - 128)
    ELSE IF n = 3 THEN (b[i] - 224) * 4096 + (b[i + 1] - 128) * 64 + (b[i + 2] - 128)
    ELSE (b[i] - 240) * 262144 + (b[i + 1] - 128) * 4096
         + (b[i + 2] - 128) * 64 + (b[i + 3] - 128)

RECURSIVE Utf8CharsFrom(_, _)
\* the scalar values of the UTF-8 bytes b[i..]; <<-1>> where they are malformed
Utf8CharsFrom(b, i) ==
    IF i > Len(b) THEN <<>>
    ELSE LET n == Utf8SeqLen(b, i)
         IN  IF n = 0 THEN <<-1>>
             ELSE <<Utf8Scalar(b, i, n)>> \o Utf8CharsFrom(b, i + n)

\* the text value a str with bytes b holds
Utf8Chars(b) == Utf8CharsFrom(b, 1)

\* the MUTF-8 form of one scalar value, by the format's definition
Mutf8Char(c) == IF c = 0 THEN <<192, 128>> ELSE Cesu8Char(c)

RECURSIVE Mutf8Repr(_)
\* the MUTF-8 representation of a text value, by the format's definition
Mutf8Repr(t) ==
    IF t = <<>> THEN <<>> ELSE Mutf8Char(Head(t)) \o Mutf8Repr(Tail(t))

\* the offset in the MUTF-8 representation of t at which t[i] starts
Mutf8Offset(t, i) == Len(Mutf8Repr(SubSeq(t, 1, i - 1)))

HasNull(t) == \E i \in 1..Len(t) : t[i] = 0
HasSupplementary(t) == \E i \in 1..Len(t) : t[i] > 65535

\* b holds a 0xC0 that is the last byte or is not followed by 0x80
BadEscape(b) ==
    \E i \in 1..Len(b) : b[i] = 192 /\ (i = Len(b) \/ b[i + 1] # 128)

RECURSIVE ValidMutf8From(_, _)
\* b[i..] is valid MUTF-8: no literal 0x00, nulls as C0 80, one- to three-byte
\* sequences, and supplementary code points as surrogate pairs
ValidMutf8From(b, i) ==
    IF i > Len(b) THEN TRUE
    ELSE IF b[i] = 0 THEN FALSE
    ELSE IF b[i] = 192
         THEN i + 1 <= Len(b) /\ b[i + 1] = 128 /\ ValidMutf8From(b, i + 2)
    ELSE IF IsSurrogatePair(b, i) THEN ValidMutf8From(b, i + 6)
    ELSE LET n == Utf8SeqLen(b, i)
         IN  n \in 1..3 /\ ValidMutf8From(b, i + n)

ValidMutf8(b) == ValidMutf8From(b, 1)

RECURSIVE ReplacePairs(_)
\* b with each C0 80 pair, taken left to right, replaced by one 0x00
ReplacePairs(b) ==
    IF b = <<>> THEN <<>>
    ELSE IF Len(b) >= 2 /\ b[1] = 192 /\ b[2] = 128
         THEN <<0>> \o ReplacePairs(SubSeq(b, 3, Len(b)))
    ELSE <<b[1]>> \o ReplacePairs(Tail(b))

\* the number of 0xC0 bytes among the first n bytes of b
CountLead(b, n) == Cardinality({i \in 1..n : b[i] = 192})

---------------------------------------------------------------------------
(* The properties. *)

\* C1: round trip. For every text value s, decode(encode(s)) succeeds and
\* returns exactly s, with null code points and code points above U+FFFF included.
C1_RoundTrip ==
    (op = "roundtrip" /\ pc = "done") =>
        /\ result.kind = "Ok"
        /\ Utf8Chars(result.bytes) = s

C1_Witness ==
    /\ op = "roundtrip" /\ pc = "done"
    /\ HasNull(s) /\ HasSupplementary(s)
    /\ result.kind = "Ok"

\* C2: the buffer encode returns holds no literal 0x00 byte, and every null code
\* point of s appears in it as the pair C0 80 at the position of that code point.
C2_NoLiteralNull ==
    EncodeDone =>
        /\ \A k \in 1..Len(result.bytes) : result.bytes[k] # 0
        /\ \A i \in 1..Len(s) :
              s[i] = 0 =>
                  LET o == Mutf8Offset(s, i)
                  IN  /\ o + 2 <= Len(result.bytes)
                      /\ result.bytes[o + 1] = 192
                      /\ result.bytes[o + 2] = 128

C2_Witness ==
    /\ EncodeDone
    /\ Len(s) >= 2 /\ s[1] > 65535 /\ s[2] = 0

\* C3: len(s) is the CESU-8 length plus one per null code point and equals the
\* byte length of encode(s) on both paths; the buffer of the slow path never
\* grows past its capacity len(s) and is returned exactly full.
C3_LengthAccuracy ==
    /\ (EncodeDone /\ lenOut # NoLen) =>
          /\ lenOut[1] = Len(result.bytes)
          /\ lenOut[1] = cesu8_len(s) + Cardinality({i \in 1..Len(s) : s[i] = 0})
    /\ pc = "enc" => Len(encoded) <= cap
    /\ (EncodeDone /\ result.cow = "Owned") => Len(result.bytes) = cap

C3_Witness ==
    /\ EncodeDone /\ lenOut # NoLen /\ result.cow = "Owned"
    /\ HasNull(s) /\ HasSupplementary(s)

C5_BadEscapeFails ==
    (op \in {"decode", "roundtrip"} /\ BadEscape(bytes)) =>
        /\ pc = "scan" \/ result = Error
        /\ \A k \in 1..Len(decoded) : decoded[k] # 192

C5_Witness ==
    /\ DecodeDone /\ result = Error
    /\ Len(bytes) >= 2 /\ bytes[Len(bytes)] = 192 /\ bytes[1] # 192
    /\ pos = Len(bytes)

\* C6: decode returns the error for every buffer that is neither well-formed
\* UTF-8 nor valid MUTF-8.
C6_RejectsInvalid ==
    (DecodeDone /\ ~ from_utf8_ok(bytes) /\ ~ ValidMutf8(bytes)) => result = Error

C8_AllOrNothing ==
    DecodeDone =>
        /\ \/ result = Error
           \/ /\ result.kind = "Ok"
              /\ from_utf8_ok(result.bytes)
              /\ result.cow = "Borrowed" => result.bytes = bytes
              /\ result.cow = "Owned" => pos = Len(bytes)
        /\ BadEscape(bytes) => result = Error
        /\ (~ from_utf8_ok(bytes) /\ ~ BadEscape(bytes)
            /\ cesu8_decode(decoded, lenient).kind # "Ok") => result = Error

C8_Witness ==
    /\ DecodeDone /\ result = Error
    /\ ~ BadEscape(bytes) /\ pos = Len(bytes) /\ Len(decoded) >= 2

\* C9: decode takes the fast path exactly when the buffer is well-formed UTF-8
\* and then returns it borrowed and unchanged; for every other buffer the result
\* is the CESU-8 decoding, owned, of the buffer with each C0 80 pair replaced by
\* one 0x00 and all other bytes copied in order.
C9_DecodeResult ==
    DecodeDone =>
        IF from_utf8_ok(bytes)
        THEN result = Ok("Borrowed", bytes)
        ELSE LET r == cesu8_decode(ReplacePairs(bytes), lenient)
             IN  result = IF r.kind = "Ok" THEN Ok("Owned", r.bytes) ELSE Error

C9_Witness ==
    /\ DecodeDone /\ ~ from_utf8_ok(bytes)
    /\ result.kind = "Ok" /\ result.cow = "Owned"
    /\ Len(bytes) >= 3 /\ bytes[2] = 192

\* C10, the states of the scan: the intermediate buffer holds no 0xC0, its
\* length is the number of bytes consumed less the number of escapes consumed,
\* which is at most the capacity bytes.len(), and the scan can take a step.
C10_ScanState ==
    pc = "scan" =>
        /\ pos <= Len(bytes)
        /\ \A k \in 1..Len(decoded) : decoded[k] # 192
        /\ Len(decoded) = pos - CountLead(bytes, pos)
        /\ Len(decoded) <= cap
        /\ cap = Len(bytes)
        /\ ENABLED (decode_mutf8_push \/ decode_mutf8_err \/ decode_mutf8_finish)

\* C10, the steps of the scan: a plain step consumes one byte and an escape step
\* two, each pushes one value and leaves the input alone, and cesu8::decode is
\* called only once the whole buffer was scanned without an escape error.
C10_ScanStep ==
    /\ (pc = "scan" /\ pc' = "scan") =>
          /\ pos' = pos + (IF bytes[pos + 1] = 192 THEN 2 ELSE 1)
          /\ Len(decoded') = Len(decoded) + 1
          /\ bytes' = bytes
    /\ (pc = "scan" /\ pc' = "done" /\ pos' = pos) =>
          /\ pos = Len(bytes)
          /\ ~ BadEscape(bytes)
    /\ (pc = "scan" /\ pc' = "done" /\ pos' # pos) =>
          /\ pos' > pos /\ pos' <= Len(bytes)
          /\ result' = Error

\* C10: the scan loop of decode_mutf8 consumes each input byte exactly once and
\* so terminates; the intermediate buffer never holds 0xC0 and never outgrows
\* its capacity; cesu8::decode is called only after a scan without escape error.
C10_ScanLoop == [] C10_ScanState /\ [][C10_ScanStep]_vars

C10_Witness ==
    /\ pc = "scan" /\ pos = Len(bytes) /\ Len(bytes) = 4
    /\ Len(decoded) = 2

====
